---- MODULE Spec2Model ----
(***************************************************************************)
(* CurrentInvocationImageView (src/js/view/nodes/image-editor/             *)
(* invocation.mjs): the hover toolbar with its hide timer and lock, and    *)
(* the image adjustment / image filter editing sessions.                   *)
(*                                                                         *)
(* Every `await` of the source is a point where the handler yields and     *)
(* another event handler may run; the code between two awaits is one       *)
(* atomic action.  Timers armed with the same delay fire in the order in   *)
(* which they were armed.                                                  *)
(***************************************************************************)
EXTENDS Integers, Sequences, FiniteSets, TLC

\* ---------------------------------------------------------------- bounds
MaxEditors       == 2   \* sub-editor views (and their windows) ever created
MaxSaveTimers    == 1   \* grace-delay timeouts pending at once
MaxTimers        == 3   \* hide timers ever armed
MaxHandlers      == 2   \* enter handlers / hide callbacks in flight

Images == {"A", "B"}
NoImage == "none"
Kinds  == {"adjustment", "filter"}
Null   == 0

VARIABLES
    \* ---- editing sessions
    src,                    \* this.src, the image the surface shows
    imageAdjuster,          \* this.imageAdjuster
    imageFilterView,        \* this.imageFilterView      (editor id or Null)
    imageFilterWindow,      \* this.imageFilterWindow    (window id or Null)
    imageAdjustmentView,    \* this.imageAdjustmentView
    imageAdjustmentWindow,  \* this.imageAdjustmentWindow
    editors,                \* the sub-editor views created so far; editor i
                            \* is hosted by window i
    saveTimers,             \* pending setTimeout(..., 150) of the save handlers
    notifications,          \* warnings pushed to application.notifications
                            \* by the last call
    focused,                \* focus() calls made on a session window by the
                            \* last call
    fault,                  \* an uncaught exception was thrown by a handler
    \* ---- toolbar
    toolbar,                \* this.toolbar has been constructed
    items,                  \* labels of the items registered by addItem, in
                            \* the order of registration
    clipboard,              \* whether navigator.clipboard and ClipboardItem
                            \* exist: "untested" until getTools() tests it,
                            \* then "present" or "absent"
    copied,                 \* copyToClipboard has been called
    attached,               \* the toolbar node is a child of the container
    timer,                  \* this.timer, id of the hide timer armed last
    pendingTimers,          \* ids of the hide timers armed and not yet fired
    lock,                   \* this.lock is held
    handlers,               \* enter handlers and hide callbacks in flight,
                            \* in the order of their lock.acquire() calls
    \* ---- observations (history, not read by the program)
    requested,              \* per kind: spawnWindow calls since the last
                            \* save, cancel or close
    scenario,               \* progress along the scenario of section 8
    swallowed,              \* what the catch of reset has caught in the
                            \* last call: "none", "removeCanvas" (the call
                            \* failed) or "released" (the view was null)
    lastEvent,              \* last pointer event: "none", "enter", "leave"
    enterMark,              \* value of timer at the last enter
    expectVisible,          \* an enter occurred and no timer armed after the
                            \* last enter has fired since
    firedSinceEnter,        \* some hide timer fired after the last enter
    lateEnter,              \* some timer fired with no enter after its leave
    everAttached            \* the toolbar has been attached at least once

sessionVars == <<src, imageAdjuster, imageFilterView, imageFilterWindow,
                 imageAdjustmentView, imageAdjustmentWindow, editors,
                 saveTimers, notifications, focused>>
toolbarVars == <<toolbar, items, clipboard, copied, attached, timer,
                 pendingTimers, lock, handlers>>
sessionObs  == <<requested, scenario, swallowed>>
toolbarObs  == <<lastEvent, enterMark, expectVisible, firedSinceEnter,
                 lateEnter, everAttached>>
vars == <<sessionVars, toolbarVars, fault, sessionObs, toolbarObs>>

\* ------------------------------------------------------------ helpers
Other(k) == IF k = "filter" THEN "adjustment" ELSE "filter"

\* the two pairs of optional fields, read by kind
View(k)   == IF k = "filter" THEN imageFilterView ELSE imageAdjustmentView
Window(k) == IF k = "filter" THEN imageFilterWindow ELSE imageAdjustmentWindow

\* isEmpty(x) for a reference
isEmpty(x) == x = Null

Init ==
    /\ src \in Images
    /\ imageAdjuster = Null
    /\ imageFilterView = Null
    /\ imageFilterWindow = Null
    /\ imageAdjustmentView = Null
    /\ imageAdjustmentWindow = Null
    /\ editors = <<>>
    /\ saveTimers = <<>>
    /\ notifications = 0
    /\ focused = 0
    /\ fault = FALSE
    /\ toolbar = FALSE
    /\ items = <<>>
    /\ clipboard = "untested"
    /\ copied = FALSE
    /\ attached = FALSE
    /\ timer = 0
    /\ pendingTimers = {}
    /\ lock = FALSE
    /\ handlers = <<>>
    /\ requested = [k \in Kinds |-> 0]
    /\ scenario = IF src = "A" THEN 0 ELSE -1
    /\ swallowed = "none"
    /\ lastEvent = "none"
    /\ enterMark = 0
    /\ expectVisible = FALSE
    /\ firedSinceEnter = FALSE
    /\ lateEnter = FALSE
    /\ everAttached = FALSE

\* ------------------------------------------------- observation helpers
ScenarioScript ==
    <<"startAdjustment", "spawned", "startFilter", "saveB", "grace",
      "startFilter", "spawned">>

\* the scenario advances on exactly the scripted event and is abandoned on
\* any other one
Scripted(label) ==
    scenario' = IF /\ scenario >= 0
                   /\ scenario < Len(ScenarioScript)
                   /\ ScenarioScript[scenario + 1] = label
                THEN scenario + 1
                ELSE -1

NoToolbarStep == UNCHANGED <<toolbarVars, toolbarObs>>

\* a call that pushes no warning, focuses no window and catches nothing
Quiet == notifications' = 0 /\ focused' = 0 /\ swallowed' = "none"

\* --------------------------------------------------- editing sessions
\* assignment to the pair of fields of kind k
SetSession(k, v, w) ==
    /\ imageFilterView'       = IF k = "filter" THEN v ELSE imageFilterView
    /\ imageFilterWindow'     = IF k = "filter" THEN w ELSE imageFilterWindow
    /\ imageAdjustmentView'   = IF k = "adjustment" THEN v ELSE imageAdjustmentView
    /\ imageAdjustmentWindow' = IF k = "adjustment" THEN w ELSE imageAdjustmentWindow

\* new ImageFilterView / ImageAdjustmentView(this.config, this.src, ...):
\* image is the image the editor holds, window the state of the window that
\* hosts it, bound whether the save and cancel callbacks are registered on
\* it; saved only records that a save handler has run for it
NewEditorStale(k) ==
    [kind |-> k, image |-> "A", window |-> "spawning", bound |-> FALSE,
     saved |-> FALSE]

NewEditor(k) ==
    [kind |-> k, image |-> src, window |-> "spawning", bound |-> FALSE,
     saved |-> FALSE]

\* the fields of kind k and the fault flag, as a record the closures work on
Held(k) == [view |-> View(k), window |-> Window(k), fault |-> fault]

Released(s) == [s EXCEPT !.view = Null, !.window = Null]

ResetResultSkipsOnThrow(s, throws) ==
    IF throws \/ isEmpty(s.view) THEN s ELSE Released(s)

ResetResultUncaught(s, throws) ==
    IF throws \/ isEmpty(s.view) THEN [s EXCEPT !.fault = TRUE]
    ELSE Released(s)

\* the closure `reset` run on s: removeCanvas() inside try/catch, where a
\* failure of removeCanvas (throws) and the TypeError on a null view are
\* swallowed, then both fields are nulled
ResetResult(s, throws) == Released(s)

\* window.remove() followed by reset(): when remove() runs the window's
\* close callback (closeFires), reset has already run once before reset()
TeardownResult(s, closeFires, throws) ==
    ResetResult(IF closeFires THEN ResetResult(s, throws) ELSE s, throws)

\* what the catch of the last reset run by a teardown of s has caught: the
\* reset that follows a close callback finds the view null
Swallowed(s, closeFires, throws) ==
    IF closeFires \/ isEmpty(s.view) THEN "released"
    ELSE IF throws THEN "removeCanvas"
    ELSE "none"

\* the record s written back to the fields of kind k
Assign(k, s) == SetSession(k, s.view, s.window) /\ fault' = s.fault

resetKeepsWindow(k, throws) ==
    SetSession(k, Null, Window(k)) /\ fault' = fault

\* the closure `reset` as a step
reset(k, throws) == Assign(k, ResetResult(Held(k), throws))

\* window.remove(); reset() as a step
teardown(k, closeFires, throws) ==
    Assign(k, TeardownResult(Held(k), closeFires, throws))

\* window.remove() seen from the window: it is gone.  The editor view it hosted
\* is discarded with it and its image is never read again (ClosedUnread).
remove(eds, w) == [eds EXCEPT ![w].window = "closed", ![w].image = NoImage]

SavedImageStale(eds, k) == src

\* this.imageFilterView.getImageSource() / this.imageAdjustmentView...
SavedImage(eds, k) == eds[View(k)].image

\* super.setImage(newImage), then imageAdjuster.setImage(newImage) if present
EditorsAfterSetImage(eds, newImage) ==
    IF ~isEmpty(imageAdjuster)
    THEN [eds EXCEPT ![imageAdjuster].image = newImage]
    ELSE eds

\* startImageFilter / startImageAdjustment up to the await of spawnWindow
Start(k) ==
    /\ IF ~isEmpty(Window(k))
       THEN /\ focused' = 1
            /\ notifications' = 0
            /\ UNCHANGED <<imageFilterView, imageFilterWindow,
                           imageAdjustmentView, imageAdjustmentWindow,
                           editors, requested>>
       ELSE IF ~isEmpty(Window(Other(k)))
       THEN /\ notifications' = 1
            /\ focused' = 0
            /\ UNCHANGED <<imageFilterView, imageFilterWindow,
                           imageAdjustmentView, imageAdjustmentWindow,
                           editors, requested>>
       ELSE /\ Len(editors) < MaxEditors
            /\ editors' = Append(editors, NewEditor(k))
            /\ SetSession(k, Len(editors) + 1, Window(k))
            /\ requested' = [requested EXCEPT ![k] = @ + 1]
            /\ notifications' = 0
            /\ focused' = 0
    /\ swallowed' = "none"
    /\ Scripted(IF k = "filter" THEN "startFilter" ELSE "startAdjustment")
    /\ UNCHANGED <<src, imageAdjuster, saveTimers, fault>>
    /\ NoToolbarStep

StartImageFilter == Start("filter")

StartImageAdjustment == Start("adjustment")

\* spawnWindow resolves for editor v: the rest of startImage... runs
SpawnResolved(v) ==
    LET k == editors[v].kind
        opened == [editors EXCEPT ![v].window = "open"]
    IN  /\ editors[v].window = "spawning"
        /\ SetSession(k, View(k), v)
        /\ IF isEmpty(View(k))
           THEN \* this.image...View.onSave(...) on null: TypeError
                /\ editors' = opened
                /\ fault' = TRUE
           ELSE /\ editors' = [opened EXCEPT ![View(k)].bound = TRUE]
                /\ UNCHANGED fault
        /\ Scripted("spawned")
        /\ Quiet
        /\ UNCHANGED <<src, imageAdjuster, saveTimers, requested>>
        /\ NoToolbarStep

\* the window's close callback (the user closes window w)
OnClose(w, throws) ==
    LET k == editors[w].kind
    IN  /\ editors[w].window = "open"
        /\ editors' = remove(editors, w)
        /\ reset(k, throws)
        /\ swallowed' = Swallowed(Held(k), FALSE, throws)
        /\ requested' = [j \in Kinds |-> 0]
        /\ Scripted("close")
        /\ notifications' = 0
        /\ focused' = 0
        /\ UNCHANGED <<src, imageAdjuster, saveTimers>>
        /\ NoToolbarStep

\* the callback given to onCancel, run when cancel is clicked in editor v
OnCancel(v, closeFires, throws) ==
    LET k == editors[v].kind
    IN  /\ editors[v].bound
        /\ editors[v].window = "open"
        /\ IF isEmpty(Window(k))
           THEN \* this.image...Window.remove() on null: TypeError
                /\ fault' = TRUE
                /\ UNCHANGED <<imageFilterView, imageFilterWindow,
                               imageAdjustmentView, imageAdjustmentWindow,
                               editors>>
                /\ swallowed' = "none"
           ELSE /\ editors' = remove(editors, Window(k))
                /\ teardown(k, closeFires, throws)
                /\ swallowed' = Swallowed(Held(k), closeFires, throws)
        /\ requested' = [j \in Kinds |-> 0]
        /\ Scripted("cancel")
        /\ notifications' = 0
        /\ focused' = 0
        /\ UNCHANGED <<src, imageAdjuster, saveTimers>>
        /\ NoToolbarStep

\* the callback given to onSave, run when save is clicked in editor v whose
\* edit produced image r
OnSave(v, r) ==
    LET k == editors[v].kind
        edited == [editors EXCEPT ![v].image = r, ![v].saved = TRUE]
    IN  /\ editors[v].bound
        /\ editors[v].window = "open"
        /\ Len(saveTimers) < MaxSaveTimers
        /\ IF isEmpty(View(k))
           THEN \* this.image...View.getImageSource() on null: TypeError
                /\ fault' = TRUE
                /\ editors' = edited
                /\ UNCHANGED <<src, saveTimers>>
           ELSE /\ src' = SavedImage(edited, k)
                /\ editors' = EditorsAfterSetImage(edited, SavedImage(edited, k))
                /\ saveTimers' = Append(saveTimers, [kind |-> k, view |-> v])
                /\ UNCHANGED fault
        /\ requested' = [j \in Kinds |-> 0]
        /\ Scripted(IF r = "B" THEN "saveB" ELSE "save")
        /\ Quiet
        /\ UNCHANGED <<imageAdjuster, imageFilterView, imageFilterWindow,
                       imageAdjustmentView, imageAdjustmentWindow>>
        /\ NoToolbarStep

\* the setTimeout callback of a save handler, 150 ms after the save
SaveTimeout(closeFires, throws) ==
    /\ saveTimers # <<>>
    /\ LET k == Head(saveTimers).kind
       IN  IF isEmpty(Window(k))
           THEN \* this.image...Window.remove() on null: TypeError
                /\ fault' = TRUE
                /\ UNCHANGED <<imageFilterView, imageFilterWindow,
                               imageAdjustmentView, imageAdjustmentWindow,
                               editors>>
                /\ swallowed' = "none"
           ELSE /\ editors' = remove(editors, Window(k))
                /\ teardown(k, closeFires, throws)
                /\ swallowed' = Swallowed(Held(k), closeFires, throws)
    /\ saveTimers' = Tail(saveTimers)
    /\ Scripted("grace")
    /\ notifications' = 0
    /\ focused' = 0
    /\ UNCHANGED <<src, imageAdjuster, requested>>
    /\ NoToolbarStep

\* setImage(newImage) called by the owner of the surface
SetImage(newImage) ==
    /\ newImage # src
    /\ src' = newImage
    /\ editors' = EditorsAfterSetImage(editors, newImage)
    /\ Scripted("setImage")
    /\ Quiet
    /\ UNCHANGED <<imageAdjuster, imageFilterView, imageFilterWindow,
                   imageAdjustmentView, imageAdjustmentWindow, saveTimers,
                   fault, requested>>
    /\ NoToolbarStep

SessionNext ==
    \/ StartImageFilter
    \/ StartImageAdjustment
    \/ \E v \in DOMAIN editors : SpawnResolved(v)
    \/ \E w \in DOMAIN editors : \E throws \in BOOLEAN : OnClose(w, throws)
    \/ \E v \in DOMAIN editors : \E closeFires, throws \in BOOLEAN :
          OnCancel(v, closeFires, throws)
    \/ \E v \in DOMAIN editors : \E r \in Images : OnSave(v, r)
    \/ \E closeFires, throws \in BOOLEAN : SaveTimeout(closeFires, throws)
    \/ \E newImage \in Images : SetImage(newImage)

SessionSpec == Init /\ [][SessionNext]_vars

\* the surface never holds a reference to an editor or window that is closed
ClosedUnread ==
    \A k \in Kinds :
        /\ ~isEmpty(View(k)) => editors[View(k)].window # "closed"
        /\ ~isEmpty(Window(k)) => editors[Window(k)].window = "open"

TypeOK ==
    /\ src \in Images
    /\ ClosedUnread
    /\ notifications + focused \in 0..1
    /\ Len(editors) <= MaxEditors
    /\ Len(saveTimers) <= MaxSaveTimers

\* ------------------------------------------------------------ toolbar
NoSessionStep == UNCHANGED <<sessionVars, sessionObs>>

\* clearTimeout(this.timer)
stopHideTimer == pendingTimers' = pendingTimers \ {timer}

\* this.timer = setTimeout(..., hideTime): a new timer, the earlier ones
\* stay armed
startHideTimer ==
    /\ timer < MaxTimers
    /\ timer' = timer + 1
    /\ pendingTimers' = pendingTimers \cup {timer + 1}

HandlerNoLock(op) == [op |-> op, pc |-> "getTools", n |-> 0]

\* a handler that has called this.lock.acquire(); the lock serves its callers
\* in the order of their calls.  pc is the await the handler is suspended at,
\* n the number of addItem calls its getTools() call has completed
Handler(op) == [op |-> op, pc |-> "acquire", n |-> 0]

\* the handlers between lock.acquire() and release()
InSection == {i \in DOMAIN handlers : handlers[i].pc # "acquire"}

RemoveAt(seq, i) == SubSeq(seq, 1, i - 1) \o SubSeq(seq, i + 1, Len(seq))

CopyOfferedAlways == TRUE

\* !!navigator.clipboard && typeof ClipboardItem === "function"
CopyOffered == clipboard = "present"

\* the items getTools() adds, in order
ToolItems ==
    <<"Hide Image">>
    \o (IF CopyOffered THEN <<"Copy to Clipboard">> ELSE <<>>)
    \o <<"Popout Image", "Save As", "Adjust Image", "Filter Image",
         "Edit Image">>

NeedsBuildAlways == TRUE

\* isEmpty(this.toolbar)
NeedsBuild == ~toolbar

ObserveEnter ==
    /\ lastEvent' = "enter"
    /\ enterMark' = timer
    /\ expectVisible' = TRUE
    /\ firedSinceEnter' = FALSE
    /\ UNCHANGED <<lateEnter, everAttached>>

ObserveLeave ==
    /\ lastEvent' = "leave"
    /\ UNCHANGED <<enterMark, expectVisible, firedSinceEnter, lateEnter,
                   everAttached>>

\* onMouseEnter up to the await of lock.acquire()
OnMouseEnter ==
    /\ Len(handlers) < MaxHandlers
    /\ stopHideTimer
    /\ handlers' = Append(handlers, Handler("show"))
    /\ ObserveEnter
    /\ UNCHANGED <<toolbar, items, clipboard, copied, attached, timer, lock,
                   fault>>
    /\ NoSessionStep

\* onMouseLeave
OnMouseLeave ==
    /\ startHideTimer
    /\ ObserveLeave
    /\ UNCHANGED <<toolbar, items, clipboard, copied, attached, lock,
                   handlers, fault>>
    /\ NoSessionStep

\* toolbarEntered, called by the mouseenter listener of the toolbar node,
\* which receives pointer events while it is in the container
ToolbarEntered ==
    /\ attached
    /\ stopHideTimer
    /\ ObserveEnter
    /\ UNCHANGED <<toolbar, items, clipboard, copied, attached, timer, lock,
                   handlers, fault>>
    /\ NoSessionStep

\* toolbarLeft, called by the mouseleave listener of the toolbar node
ToolbarLeft ==
    /\ attached
    /\ startHideTimer
    /\ ObserveLeave
    /\ UNCHANGED <<toolbar, items, clipboard, copied, attached, lock,
                   handlers, fault>>
    /\ NoSessionStep

\* the oldest pending hide timer expires: its callback runs up to the await
\* of lock.acquire()
HideTimerFires ==
    /\ pendingTimers # {}
    /\ Len(handlers) < MaxHandlers
    /\ LET t == CHOOSE x \in pendingTimers : \A y \in pendingTimers : x <= y
       IN  /\ pendingTimers' = pendingTimers \ {t}
           /\ expectVisible' = (expectVisible /\ t <= enterMark)
           /\ lateEnter' = (lateEnter \/ t > enterMark)
    /\ handlers' = Append(handlers, Handler("hide"))
    /\ firedSinceEnter' = TRUE
    /\ UNCHANGED <<toolbar, items, clipboard, copied, attached, timer, lock,
                   fault, lastEvent, enterMark, everAttached>>
    /\ NoSessionStep

\* lock.acquire() resolves for the handler that asked first
LockAcquired(i) ==
    /\ handlers[i].pc = "acquire"
    /\ \A j \in 1..(i - 1) : handlers[j].pc # "acquire"
    /\ ~lock
    /\ lock' = TRUE
    /\ handlers' = [handlers EXCEPT ![i].pc = "getTools"]
    /\ UNCHANGED <<toolbar, items, clipboard, copied, attached, timer,
                   pendingTimers, fault, toolbarObs>>
    /\ NoSessionStep

\* getTools() up to its first await: an existing toolbar is returned, else
\* this.toolbar is set and the first addItem is awaited (the capability test
\* of line 97 does not change between the calls, it is drawn here)
GetTools(i) ==
    /\ handlers[i].pc = "getTools"
    /\ IF NeedsBuild
       THEN /\ toolbar' = TRUE
            /\ clipboard' \in IF clipboard = "untested"
                               THEN {"present", "absent"} ELSE {clipboard}
            /\ handlers' = [handlers EXCEPT ![i].pc = "addItem"]
       ELSE /\ handlers' = [handlers EXCEPT ![i].pc = "render"]
            /\ UNCHANGED <<toolbar, clipboard>>
    /\ UNCHANGED <<items, copied, attached, timer, pendingTimers, lock, fault,
                   toolbarObs>>
    /\ NoSessionStep

\* an awaited addItem resolves inside getTools(): the item's onClick is
\* registered and the next addItem is awaited, or the toolbar is returned
AddItem(i) ==
    /\ handlers[i].pc = "addItem"
    /\ items' = Append(items, ToolItems[handlers[i].n + 1])
    /\ handlers' = [handlers EXCEPT
                       ![i].n = @ + 1,
                       ![i].pc = IF handlers[i].n + 1 = Len(ToolItems)
                                 THEN "render" ELSE "addItem"]
    /\ UNCHANGED <<toolbar, clipboard, copied, attached, timer, pendingTimers,
                   lock, fault, toolbarObs>>
    /\ NoSessionStep

\* onMouseEnter after render(): appendChild (an attached node stays attached
\* once), release()
AppendToolbar(i) ==
    /\ handlers[i].op = "show"
    /\ handlers[i].pc = "render"
    /\ attached' = TRUE
    /\ lock' = FALSE
    /\ handlers' = RemoveAt(handlers, i)
    /\ everAttached' = TRUE
    /\ UNCHANGED <<toolbar, items, clipboard, copied, timer, pendingTimers,
                   fault, lastEvent, enterMark, expectVisible,
                   firedSinceEnter, lateEnter>>
    /\ NoSessionStep

\* the hide callback after render(): removeChild, release(); removeChild of a
\* node that is not a child throws NotFoundError and release() is not reached
RemoveToolbar(i) ==
    /\ handlers[i].op = "hide"
    /\ handlers[i].pc = "render"
    /\ IF attached
       THEN /\ attached' = FALSE
            /\ lock' = FALSE
            /\ UNCHANGED fault
       ELSE /\ fault' = TRUE
            /\ UNCHANGED <<attached, lock>>
    /\ handlers' = RemoveAt(handlers, i)
    /\ UNCHANGED <<toolbar, items, clipboard, copied, timer, pendingTimers,
                   toolbarObs>>
    /\ NoSessionStep

\* a click on the "Copy to Clipboard" item of the attached toolbar runs
\* copyToClipboard; navigator.clipboard.write throws when it is missing
CopyToClipboard ==
    /\ attached
    /\ \E n \in DOMAIN items : items[n] = "Copy to Clipboard"
    /\ ~copied
    /\ copied' = TRUE
    /\ fault' = (fault \/ clipboard # "present")
    /\ UNCHANGED <<toolbar, items, clipboard, attached, timer, pendingTimers,
                   lock, handlers, toolbarObs>>
    /\ NoSessionStep

ToolbarNext ==
    \/ OnMouseEnter
    \/ OnMouseLeave
    \/ ToolbarEntered
    \/ ToolbarLeft
    \/ HideTimerFires
    \/ \E i \in DOMAIN handlers : LockAcquired(i)
    \/ \E i \in DOMAIN handlers : GetTools(i)
    \/ \E i \in DOMAIN handlers : AddItem(i)
    \/ \E i \in DOMAIN handlers : AppendToolbar(i)
    \/ \E i \in DOMAIN handlers : RemoveToolbar(i)
    \/ CopyToClipboard

ToolbarSpec == Init /\ [][ToolbarNext]_vars

Next == SessionNext \/ ToolbarNext

Spec == Init /\ [][Next]_vars

\* ------------------------------------------------------------ claims
\* the fields of kind k after the step
ViewNext(k)   == IF k = "filter" THEN imageFilterView' ELSE imageAdjustmentView'
WindowNext(k) == IF k = "filter" THEN imageFilterWindow' ELSE imageAdjustmentWindow'

\* a session counts as non-null when its editor view or its window is set
SessionNonNull(k) == ~isEmpty(View(k)) \/ ~isEmpty(Window(k))

\* a session with both its editor view and its window
SessionOpen(k) == ~isEmpty(View(k)) /\ ~isEmpty(Window(k))

\* C1: at most one of the adjustment session and the filter session is
\* non-null at any time.
C1_AtMostOneSession ==
    ~(SessionNonNull("adjustment") /\ SessionNonNull("filter"))

\* C2: a start call that follows a start call of the same kind, with no
\* cancel, save or close in between, creates no second editor or window and
\* sends a focus request to the existing window.
C2_SecondStartFocuses ==
    [][\A k \in Kinds :
         (Start(k) /\ requested[k] >= 1) =>
             /\ editors' = editors
             /\ requested' = requested
             /\ focused' = 1]_vars

\* C3: a start call of one kind while a session of the other kind is active
\* pushes exactly one warning, creates no editor view and no window, and
\* leaves the active session and the surface image unchanged.
C3_OtherKindWarns ==
    [][\A k \in Kinds :
         (Start(k) /\ SessionOpen(Other(k))) =>
             /\ notifications' = 1
             /\ focused' = 0
             /\ UNCHANGED <<editors, src, imageFilterView,
                            imageFilterWindow, imageAdjustmentView,
                            imageAdjustmentWindow>>]_vars

\* C4: a save on the active session of a kind sets the surface image to the
\* editor's resulting image and arms the grace timer; when that timer fires
\* the fields of that kind no longer refer to the saved session (the window
\* field is null); a start call with no session left creates a fresh editor
\* whose window is being spawned.
C4_SaveCommitsThenReleases ==
    [][/\ \A v \in DOMAIN editors : \A r \in Images :
             (OnSave(v, r) /\ View(editors[v].kind) = v) =>
                 /\ src' = r
                 /\ saveTimers' = Append(saveTimers,
                                         [kind |-> editors[v].kind, view |-> v])
                 /\ ViewNext(editors[v].kind) = v
       /\ (\E closeFires, throws \in BOOLEAN :
              SaveTimeout(closeFires, throws)) =>
             LET t == Head(saveTimers)
             IN  /\ WindowNext(t.kind) = Null
                 /\ ViewNext(t.kind) # t.view
                 /\ View(t.kind) = t.view => ViewNext(t.kind) = Null
                 /\ src' = src
       /\ \A k \in Kinds :
             (Start(k) /\ ~SessionNonNull("filter")
                       /\ ~SessionNonNull("adjustment")) =>
                 /\ Len(editors') = Len(editors) + 1
                 /\ ViewNext(k) = Len(editors')
                 /\ editors'[ViewNext(k)].window = "spawning"]_vars

\* C4 witness: an editor was saved and its window is closed, and a later
\* start of the same kind has a new editor in a new open window.
C4_Witness ==
    \E v, w \in DOMAIN editors :
        /\ editors[v].saved
        /\ editors[v].window = "closed"
        /\ editors[w].kind = editors[v].kind
        /\ w > v
        /\ View(editors[w].kind) = w
        /\ Window(editors[w].kind) = w
        /\ editors[w].window = "open"
        /\ saveTimers = <<>>

\* C5: a cancel or a close on the active session nulls both fields of its
\* kind and leaves the surface image as it was.
C5_CancelCloseRelease ==
    [][/\ \A v \in DOMAIN editors :
             ((\E closeFires, throws \in BOOLEAN :
                  OnCancel(v, closeFires, throws))
                 /\ View(editors[v].kind) = v) =>
                 /\ ViewNext(editors[v].kind) = Null
                 /\ WindowNext(editors[v].kind) = Null
                 /\ src' = src
       /\ \A w \in DOMAIN editors :
             ((\E throws \in BOOLEAN : OnClose(w, throws))
                 /\ Window(editors[w].kind) = w) =>
                 /\ ViewNext(editors[w].kind) = Null
                 /\ WindowNext(editors[w].kind) = Null
                 /\ src' = src]_vars

\* C5 witness: a session that was bound and never saved has been released
\* and its window is closed.
C5_Witness ==
    \E v \in DOMAIN editors :
        /\ editors[v].bound
        /\ ~editors[v].saved
        /\ editors[v].window = "closed"
        /\ ~SessionNonNull(editors[v].kind)

\* C9: after setImage the editor of the active adjustment session holds the
\* image the surface shows.
C9_SetImageReachesAdjuster ==
    [][\A newImage \in Images :
         (SetImage(newImage) /\ SessionOpen("adjustment")) =>
             editors'[imageAdjustmentView].image = src']_vars

\* C10: along the scenario (image A, start adjustment, window spawned, start
\* filter, save with result B, grace delay, start filter, window spawned) the
\* adjustment editor is bound to A, the filter start only warns and leaves
\* the adjustment window open, the save makes the surface image B, the grace
\* delay closes the adjustment window, and the filter editor is bound to B.
C10_Scenario ==
    /\ scenario \in 1..3 =>
          /\ imageAdjustmentView = 1
          /\ editors[1].kind = "adjustment"
          /\ editors[1].image = "A"
    /\ scenario \in 2..4 =>
          /\ imageAdjustmentWindow = 1
          /\ editors[1].window = "open"
    /\ scenario = 3 => notifications = 1 /\ focused = 0
    /\ scenario \in 3..4 =>
          /\ Len(editors) = 1
          /\ isEmpty(imageFilterView) /\ isEmpty(imageFilterWindow)
    /\ scenario >= 4 => src = "B"
    /\ scenario >= 5 =>
          /\ editors[1].window = "closed"
          /\ ~SessionNonNull("adjustment")
    /\ scenario >= 6 =>
          /\ imageFilterView = 2
          /\ editors[2].kind = "filter"
          /\ editors[2].image = "B"
    /\ scenario = 7 =>
          /\ imageFilterWindow = 2
          /\ editors[2].window = "open"

\* C10 witness: the scenario has been run to its end.
C10_Witness == scenario = 7

\* C6: once all pending handlers have run, the toolbar is attached if and
\* only if the most recent event was an enter (or enters) not yet followed by
\* an elapsed hide delay.
C6_AttachedIffEntered == handlers = <<>> => (attached <=> expectVisible)

\* C7: once the toolbar is attached, it is never detached as long as every
\* leave was followed by an enter before its hide delay elapsed.
C7_NoDetachWhileEntered == (everAttached /\ ~lateEnter) => attached

\* C8: after a pointer-enter, once its handler and the hide callbacks fired
\* before it have completed, the toolbar is attached.
C8_EnterLeadsToVisible ==
    (lastEvent = "enter" /\ ~firedSinceEnter /\ handlers = <<>>) => attached

\* C11: the toolbar is built and each of its items registered exactly once,
\* and every caller of getTools() gets the toolbar with all its items.
C11_ToolsBuiltOnce ==
    /\ \A m, n \in DOMAIN items : items[m] = items[n] => m = n
    /\ \A i \in DOMAIN handlers :
          handlers[i].pc = "render" => (toolbar /\ items = ToolItems)
    /\ attached => (toolbar /\ items = ToolItems)

\* C11 witness: a caller that did not build the toolbar has been handed the
\* complete one.
C11_Witness ==
    \E i \in DOMAIN handlers :
        /\ handlers[i].pc = "render"
        /\ handlers[i].n = 0
        /\ items = ToolItems

\* C12: without the clipboard capability the toolbar has no "Copy to
\* Clipboard" item and copyToClipboard is never called; with it the built
\* toolbar has the item.
C12_CopyOnlyIfCapable ==
    /\ clipboard # "present" =>
          /\ \A n \in DOMAIN items : items[n] # "Copy to Clipboard"
          /\ ~copied
    /\ (clipboard = "present" /\ attached) =>
          \E n \in DOMAIN items : items[n] = "Copy to Clipboard"

\* C12 witness: the toolbar is shown, fully built, without the capability.
C12_Witness == clipboard = "absent" /\ attached /\ Len(items) = 6

\* C13: whenever the lock is held, a handler that will release it is in
\* flight.
C13_LockReleased == lock => InSection # {}

\* C14: at most one hide timer is pending at any time.
C14_OneTimerPending == Cardinality(pendingTimers) <= 1

\* C15: at most one handler is between lock.acquire() and release().
C15_MutualExclusion == Cardinality(InSection) <= 1

\* C15 witness: a handler is suspended inside the section, awaiting an
\* addItem of getTools(), while another one waits for the lock.
C15_Witness ==
    \E i, j \in DOMAIN handlers :
        /\ handlers[i].pc = "addItem"
        /\ handlers[j].pc = "acquire"
        /\ lock

\* C16: when a window is closed, both fields of its kind are null after the
\* close callback and no fault is raised, whether removeCanvas() fails or
\* not.
C16_CloseReleasesDespiteFailure ==
    [][\A w \in DOMAIN editors : \A throws \in BOOLEAN :
          OnClose(w, throws) =>
              /\ ViewNext(editors[w].kind) = Null
              /\ WindowNext(editors[w].kind) = Null
              /\ fault' = fault]_vars

\* C16 witness: the last close callback caught a failure of removeCanvas(),
\* the window is closed, no session is left and no fault was raised.
C16_Witness ==
    /\ swallowed = "removeCanvas"
    /\ ~fault
    /\ \A k \in Kinds : ~SessionNonNull(k)
    /\ \E w \in DOMAIN editors : editors[w].window = "closed"

\* C17: the teardown armed by a save on a session tears down that session
\* only: when the fields of the kind refer to a later session as the timer
\* fires, the fields are left as they are and no window is removed.
C17_TeardownOnlyItsSession ==
    [][(\E closeFires, throws \in BOOLEAN :
           SaveTimeout(closeFires, throws)) =>
          LET t == Head(saveTimers)
          IN  (SessionOpen(t.kind) /\ View(t.kind) # t.view
                                   /\ Window(t.kind) # t.view) =>
                  /\ ViewNext(t.kind) = View(t.kind)
                  /\ WindowNext(t.kind) = Window(t.kind)
                  /\ \A w \in DOMAIN editors :
                        editors'[w].window = editors[w].window]_vars

\* C18: the save callback and the teardown it arms never dereference a null
\* editor view or window: neither of them raises a fault.
C18_SavePathNoFault ==
    [][(\/ \E closeFires, throws \in BOOLEAN :
              SaveTimeout(closeFires, throws)
        \/ \E v \in DOMAIN editors : \E r \in Images : OnSave(v, r)) =>
          fault' = fault]_vars

\* C19: reset is idempotent: run on a released session it leaves both fields
\* null and raises no fault, and a teardown in which window.remove() runs the
\* close callback before reset() ends as one without: both fields of the
\* kind null, no fault, nothing else of the surface changed.
C19_ResetIdempotent ==
    [][\A k \in Kinds : \A closeFires, throws \in BOOLEAN :
          (/\ ~isEmpty(Window(k))
           /\ \/ saveTimers # <<>> /\ Head(saveTimers).kind = k
                                   /\ SaveTimeout(closeFires, throws)
              \/ \E v \in DOMAIN editors :
                    editors[v].kind = k /\ OnCancel(v, closeFires, throws)) =>
              /\ ResetResult(Released(Held(k)), throws) = Released(Held(k))
              /\ TeardownResult(Held(k), closeFires, throws)
                    = Released(Held(k))
              /\ ViewNext(k) = Null
              /\ WindowNext(k) = Null
              /\ ViewNext(Other(k)) = View(Other(k))
              /\ WindowNext(Other(k)) = Window(Other(k))
              /\ fault' = fault
              /\ notifications' = 0
              /\ focused' = 0
              /\ UNCHANGED <<src, imageAdjuster>>]_vars

\* C19 witness: the reset of the last teardown ran on a session its close
\* callback had already released; a saved editor's window is closed, no
\* session is left and no fault was raised.
C19_Witness ==
    /\ swallowed = "released"
    /\ ~fault
    /\ \A k \in Kinds : ~SessionNonNull(k)
    /\ \E v \in DOMAIN editors :
          editors[v].saved /\ editors[v].window = "closed"

\* the session of kind k is saved and its teardown is still pending
InGrace(k) ==
    /\ SessionOpen(k)
    /\ \E n \in DOMAIN saveTimers :
          saveTimers[n].kind = k /\ saveTimers[n].view = View(k)

\* C20: while the teardown of a saved session is pending, a start call of
\* the same kind only focuses its window and a start call of the other kind
\* only pushes a warning; neither creates an editor or changes a field.
C20_GraceCountsAsActive ==
    [][\A k \in Kinds :
          /\ (Start(k) /\ InGrace(k)) =>
                /\ focused' = 1
                /\ notifications' = 0
                /\ UNCHANGED <<editors, imageFilterView,
                               imageFilterWindow, imageAdjustmentView,
                               imageAdjustmentWindow>>
          /\ (Start(k) /\ InGrace(Other(k))) =>
                /\ notifications' = 1
                /\ focused' = 0
                /\ UNCHANGED <<editors, imageFilterView,
                               imageFilterWindow, imageAdjustmentView,
                               imageAdjustmentWindow>>]_vars

====
